---- MODULE Spec2Model ----
(***************************************************************************)
(* The versioned feature registry of AstraFS (src/core/metadata.py).       *)
(*                                                                         *)
(* _store is the insertion-ordered dict (FeatureKey, version) -> spec,    *)
(* kept as a sequence of entries in insertion order; _latest is the dict   *)
(* FeatureKey -> version.  A FeatureSpec is a mutable object: the field id *)
(* is its object identity (the number of the register call that built      *)
(* it).  created_at is left out of the record: no operation reads it.      *)
(* A dependency set is a mutable Python set that register stores by        *)
(* reference: the field dependencies holds the reference and heap holds    *)
(* the contents of every set object.  last records, per key, the most      *)
(* recent call that changed the registry for that key, and result is what  *)
(* the last call was given and what it returned or raised.  thr holds the   *)
(* position and the locals of each concurrent caller; it is used by the    *)
(* statement-interleaved specification SpecConc only.  regs counts, per     *)
(* key, the register calls made.  ev is the last validate or evaluate call *)
(* on a Feature (src/core/feature.py), used by SpecEval only.              *)
(***************************************************************************)
EXTENDS Naturals, Sequences, FiniteSets

VARIABLES store, latest, heap, last, result, thr, regs, ev

vars == <<store, latest, heap, last, result, thr, regs, ev>>

\* ---------------------------------------------------------------- bounds
\* Number of register calls explored.
MaxRegs == 3
\* Size of the token space uuid4()[:8] draws from (2^32 in the code).
NumVersions == 2
\* Number of calls each concurrent caller makes.
MaxCalls == 2

Versions == 1..NumVersions
\* The concurrent callers of the interleaved specification.
Threads == {"t1", "t2"}

Names == {"user_7d_spend", "txn_count"}
Entities == {"user"}

\* ------------------------------------------------------------ data model
FeatureKey(name, entity) == [name |-> name, entity |-> entity]

Keys == {FeatureKey(n, e) : n \in Names, e \in Entities}

FeatureMetadata(name, entity, value_type) ==
    [name |-> name, entity |-> entity, value_type |-> value_type,
     description |-> "d", owner |-> "o"]

\* The (metadata, dependencies) arguments the callers pass to register: two
\* contracts for user_7d_spend, which differ in value_type and in the
\* dependency set, and one for txn_count.
RegInputs ==
    {[metadata |-> FeatureMetadata("user_7d_spend", "user", "int"),
      dependencies |-> {FeatureKey("txn_count", "user")}],
     [metadata |-> FeatureMetadata("user_7d_spend", "user", "float"),
      dependencies |-> {}],
     [metadata |-> FeatureMetadata("txn_count", "user", "int"),
      dependencies |-> {}]}

FeatureSpec(id, key, metadata, version, dependencies) ==
    [id |-> id, key |-> key, metadata |-> metadata, version |-> version,
     dependencies |-> dependencies, is_active |-> TRUE, is_deprecated |-> FALSE]

NoSpec == [id |-> 0]
EmptyDict == [k \in {} |-> 0]

\* ------------------------------------------------------- dict operations
\* d[k] = v on a dict held as a function.
DictSet(d, k, v) == [x \in (DOMAIN d) \cup {k} |-> IF x = k THEN v ELSE d[x]]

\* del d[k] left out: the dict keeps the key.
DictKeep(d, k) == d

\* del d[k]
DictDel(d, k) == [x \in (DOMAIN d) \ {k} |-> d[x]]

\* Position of (key, version) in the store, 0 when absent.
StoreIndex(s, key, version) ==
    IF \E i \in DOMAIN s : s[i].key = key /\ s[i].version = version
    THEN CHOOSE i \in DOMAIN s : s[i].key = key /\ s[i].version = version
    ELSE 0

StoreHas(s, key, version) == StoreIndex(s, key, version) # 0

\* self._store[(key, version)]
StoreGet(s, key, version) == s[StoreIndex(s, key, version)].spec

\* self._store[(key, version)] = spec: a present key keeps its position and
\* gets the new value, an absent one is appended.
StorePut(s, key, version, spec) ==
    IF StoreHas(s, key, version)
    THEN [s EXCEPT ![StoreIndex(s, key, version)].spec = spec]
    ELSE Append(s, [key |-> key, version |-> version, spec |-> spec])

\* GraphLoop with a filter on the lifecycle flags: deprecated specs are skipped.
RECURSIVE GraphLoopActive(_, _)
GraphLoopActive(items, graph) ==
    IF items = <<>> THEN graph
    ELSE GraphLoopActive(Tail(items),
                         IF Head(items).spec.is_deprecated THEN graph
                         ELSE DictSet(graph, Head(items).key,
                                      Head(items).spec.dependencies))

\* GraphLoop that keeps the first dependency set it meets for a key.
RECURSIVE GraphLoopFirst(_, _)
GraphLoopFirst(items, graph) ==
    IF items = <<>> THEN graph
    ELSE GraphLoopFirst(Tail(items),
                        IF Head(items).key \in DOMAIN graph THEN graph
                        ELSE DictSet(graph, Head(items).key,
                                     Head(items).spec.dependencies))

\* The loop of dependency_graph over self._store.items().
RECURSIVE GraphLoop(_, _)
GraphLoop(items, graph) ==
    IF items = <<>> THEN graph
    ELSE GraphLoop(Tail(items),
                   DictSet(graph, Head(items).key, Head(items).spec.dependencies))

NoArgs == [name |-> "", entity |-> ""]

\* What a call was given (args, key) and what it gave back: status "ok" with the
\* returned spec or graph, or status "KeyError".
Result(op, args, key, status, spec, graph) ==
    [op |-> op, args |-> args, key |-> key, status |-> status, spec |-> spec,
     graph |-> graph]

Event(op, key, version, id) == [op |-> op, key |-> key, version |-> version, id |-> id]

IdleThread == [pc |-> "idle", op |-> "none", key |-> FeatureKey("", ""),
               version |-> 0, spec |-> NoSpec, pos |-> 0, size |-> 0,
               graph |-> EmptyDict, outcome |-> "none", calls |-> 0]

\* ------------------------------------------------ values and type check
\* A Python value: the name of its type and its repr.
PyValue(type, val) == [type |-> type, val |-> val]

\* No value: what a call that raised gives back.
NoValue == PyValue("", "")

\* The values compute returns in the calls explored.
Values ==
    {PyValue("int", "0"), PyValue("int", "7"), PyValue("bool", "True"),
     PyValue("bool", "False"), PyValue("float", "1.5"), PyValue("str", "a"),
     PyValue("NoneType", "None")}

\* The types a contract declares as value_type.
ValueTypes == {"int", "float", "bool", "str"}

FeatureMetas == {FeatureMetadata(n, e, t) : n \in Names, e \in Entities, t \in ValueTypes}

\* The classes a value of type t is an instance of: bool is a subclass of int.
Mro(t) == IF t = "bool" THEN {"bool", "int", "object"} ELSE {t, "object"}

\* isinstance(value, value_type)
IsInstance(value, value_type) == value_type \in Mro(value.type)

NoError == [name |-> "", expected |-> "", actual |-> ""]

\* The outcome of validate(value) on a feature with this metadata: nothing, or
\* the TypeError with the feature name and the two type names of its message.
ValidateOutcome(metadata, value) ==
    IF ~IsInstance(value, metadata.value_type)
    THEN [status |-> "TypeError",
          error |-> [name |-> metadata.name, expected |-> metadata.value_type,
                     actual |-> value.type]]
    ELSE [status |-> "ok", error |-> NoError]

\* A call on a feature: its metadata, the value validated or computed, and
\* what the call returned or raised.
Call(op, metadata, value, status, error, returned) ==
    [op |-> op, metadata |-> metadata, value |-> value, status |-> status,
     error |-> error, returned |-> returned]

NoCall == Call("none", FeatureMetadata("", "", ""), NoValue, "ok", NoError, NoValue)

\* ------------------------------------------------------------------ Init
Init ==
    /\ store = <<>>
    /\ latest = EmptyDict
    /\ heap = <<>>
    /\ last = [k \in Keys |-> Event("none", k, 0, 0)]
    /\ result = Result("none", NoArgs, FeatureKey("", ""), "ok", NoSpec, EmptyDict)
    /\ thr = [t \in Threads |-> IdleThread]
    /\ regs = [k \in Keys |-> 0]
    /\ ev = NoCall

\* ------------------------------------------------- whole-call operations
\* Register that leaves the latest index alone when the key already has an
\* entry (setdefault in place of the assignment).
RegisterKeepsLatest(metadata, deps, version) ==
    /\ Len(heap) < MaxRegs
    /\ LET key == FeatureKey(metadata.name, metadata.entity)
           ref == Len(heap) + 1
           spec == FeatureSpec(Len(heap) + 1, key, metadata, version, ref)
       IN /\ heap' = Append(heap, deps)
          /\ store' = StorePut(store, key, version, spec)
          /\ latest' = IF key \in DOMAIN latest THEN latest
                        ELSE DictSet(latest, key, version)
          /\ last' = [last EXCEPT ![key] = Event("register", key, version, spec.id)]
          /\ regs' = [regs EXCEPT ![key] = @ + 1]
          /\ result' = Result("register", [metadata |-> metadata, dependencies |-> ref],
                              key, "ok", spec, EmptyDict)
    /\ UNCHANGED <<thr, ev>>

\* register(metadata, dependencies), the dependencies being a new set object
\* with contents deps; version is the token uuid4 yields.
Register(metadata, deps, version) ==
    /\ Len(heap) < MaxRegs
    /\ LET key == FeatureKey(metadata.name, metadata.entity)
           ref == Len(heap) + 1
           spec == FeatureSpec(Len(heap) + 1, key, metadata, version, ref)
       IN /\ heap' = Append(heap, deps)
          /\ store' = StorePut(store, key, version, spec)
          /\ latest' = DictSet(latest, key, version)
          /\ last' = [last EXCEPT ![key] = Event("register", key, version, spec.id)]
          /\ regs' = [regs EXCEPT ![key] = @ + 1]
          /\ result' = Result("register", [metadata |-> metadata, dependencies |-> ref],
                              key, "ok", spec, EmptyDict)
    /\ UNCHANGED <<thr, ev>>

Get(name, entity) ==
    /\ LET key == FeatureKey(name, entity)
           args == [name |-> name, entity |-> entity]
       IN IF key \notin DOMAIN latest
          THEN result' = Result("get", args, key, "KeyError", NoSpec, EmptyDict)
          ELSE result' = Result("get", args, key, "ok",
                                StoreGet(store, key, latest[key]), EmptyDict)
    /\ UNCHANGED <<store, latest, heap, last, thr, regs, ev>>

\* The flags of every stored version of the key, set as deprecate sets them.
MarkKey(s, key) ==
    [j \in DOMAIN s |->
        IF s[j].key = key
        THEN [s[j] EXCEPT !.spec.is_active = FALSE, !.spec.is_deprecated = TRUE]
        ELSE s[j]]

\* Deprecate that sets the flags before it looks the key up in the latest index.
DeprecateMarksFirst(name, entity) ==
    /\ LET key == FeatureKey(name, entity)
           args == [name |-> name, entity |-> entity]
       IN IF key \notin DOMAIN latest
          THEN /\ result' = Result("deprecate", args, key, "KeyError", NoSpec, EmptyDict)
               /\ store' = MarkKey(store, key)
               /\ UNCHANGED <<latest, last>>
          ELSE LET version == latest[key]
                   i == StoreIndex(store, key, version)
               IN /\ store' = [store EXCEPT ![i].spec.is_active = FALSE,
                                            ![i].spec.is_deprecated = TRUE]
                  /\ latest' = DictDel(latest, key)
                  /\ last' = [last EXCEPT ![key] = Event("deprecate", key, version,
                                                           store[i].spec.id)]
                  /\ result' = Result("deprecate", args, key, "ok", NoSpec, EmptyDict)
    /\ UNCHANGED <<heap, thr, regs, ev>>

\* Deprecate that falls back to an earlier version of the key that is still
\* active instead of leaving the key without a latest entry.
DeprecateFallsBack(name, entity) ==
    /\ LET key == FeatureKey(name, entity)
           args == [name |-> name, entity |-> entity]
       IN IF key \notin DOMAIN latest
          THEN /\ result' = Result("deprecate", args, key, "KeyError", NoSpec, EmptyDict)
               /\ UNCHANGED <<store, latest, last>>
          ELSE LET version == latest[key]
                   i == StoreIndex(store, key, version)
                   older == {j \in DOMAIN store :
                                /\ j # i
                                /\ store[j].key = key
                                /\ store[j].spec.is_active}
               IN /\ store' = [store EXCEPT ![i].spec.is_active = FALSE,
                                            ![i].spec.is_deprecated = TRUE]
                  /\ latest' = IF older = {} THEN DictDel(latest, key)
                                ELSE DictSet(latest, key,
                                             store[CHOOSE j \in older : TRUE].version)
                  /\ last' = [last EXCEPT ![key] = Event("deprecate", key, version,
                                                           store[i].spec.id)]
                  /\ result' = Result("deprecate", args, key, "ok", NoSpec, EmptyDict)
    /\ UNCHANGED <<heap, thr, regs, ev>>

\* Deprecate that clears is_active and leaves is_deprecated as it was.
DeprecateActiveOnly(name, entity) ==
    /\ LET key == FeatureKey(name, entity)
           args == [name |-> name, entity |-> entity]
       IN IF key \notin DOMAIN latest
          THEN /\ result' = Result("deprecate", args, key, "KeyError", NoSpec, EmptyDict)
               /\ UNCHANGED <<store, latest, last>>
          ELSE LET version == latest[key]
                   i == StoreIndex(store, key, version)
               IN /\ store' = [store EXCEPT ![i].spec.is_active = FALSE]
                  /\ latest' = DictDel(latest, key)
                  /\ last' = [last EXCEPT ![key] = Event("deprecate", key, version,
                                                           store[i].spec.id)]
                  /\ result' = Result("deprecate", args, key, "ok", NoSpec, EmptyDict)
    /\ UNCHANGED <<heap, thr, regs, ev>>

\* Deprecate that marks every stored version of the key, not only the latest.
DeprecateAllVersions(name, entity) ==
    /\ LET key == FeatureKey(name, entity)
           args == [name |-> name, entity |-> entity]
       IN IF key \notin DOMAIN latest
          THEN /\ result' = Result("deprecate", args, key, "KeyError", NoSpec, EmptyDict)
               /\ UNCHANGED <<store, latest, last>>
          ELSE LET version == latest[key]
                   i == StoreIndex(store, key, version)
               IN /\ store' = MarkKey(store, key)
                  /\ latest' = DictDel(latest, key)
                  /\ last' = [last EXCEPT ![key] = Event("deprecate", key, version,
                                                           store[i].spec.id)]
                  /\ result' = Result("deprecate", args, key, "ok", NoSpec, EmptyDict)
    /\ UNCHANGED <<heap, thr, regs, ev>>

Deprecate(name, entity) ==
    /\ LET key == FeatureKey(name, entity)
           args == [name |-> name, entity |-> entity]
       IN IF key \notin DOMAIN latest
          THEN /\ result' = Result("deprecate", args, key, "KeyError", NoSpec, EmptyDict)
               /\ UNCHANGED <<store, latest, last>>
          ELSE LET version == latest[key]
                   i == StoreIndex(store, key, version)
               IN /\ store' = [store EXCEPT ![i].spec.is_active = FALSE,
                                            ![i].spec.is_deprecated = TRUE]
                  /\ latest' = DictDel(latest, key)
                  /\ last' = [last EXCEPT ![key] = Event("deprecate", key, version,
                                                           store[i].spec.id)]
                  /\ result' = Result("deprecate", args, key, "ok", NoSpec, EmptyDict)
    /\ UNCHANGED <<heap, thr, regs, ev>>

DependencyGraph ==
    /\ result' = Result("dependency_graph", NoArgs, FeatureKey("", ""), "ok", NoSpec,
                        GraphLoop(store, EmptyDict))
    /\ UNCHANGED <<store, latest, heap, last, thr, regs, ev>>

Next ==
    \/ \E r \in RegInputs, v \in Versions : Register(r.metadata, r.dependencies, v)
    \/ \E n \in Names, e \in Entities : Get(n, e)
    \/ \E n \in Names, e \in Entities : Deprecate(n, e)
    \/ DependencyGraph

Spec == Init /\ [][Next]_vars

\* ------------------------------------------------------ feature evaluation
RegistryVars == <<store, latest, heap, last, result, thr, regs>>

\* validate(value) on a feature with this metadata.
Validate(metadata, value) ==
    /\ LET out == ValidateOutcome(metadata, value)
       IN ev' = Call("validate", metadata, value, out.status, out.error, NoValue)
    /\ UNCHANGED RegistryVars

\* evaluate(raw_data, event_time) on a feature with this metadata whose compute
\* returns value for these arguments: validate(value), then return value.
Evaluate(metadata, value) ==
    /\ LET out == ValidateOutcome(metadata, value)
       IN ev' = Call("evaluate", metadata, value, out.status, out.error,
                     IF out.status = "ok" THEN value ELSE NoValue)
    /\ UNCHANGED RegistryVars

NextEval ==
    \/ \E m \in FeatureMetas, v \in Values : Validate(m, v)
    \/ \E m \in FeatureMetas, v \in Values : Evaluate(m, v)

SpecEval == Init /\ [][NextEval]_vars

\* ------------------------------------------------------ aliased set objects
\* register stores the caller's set object itself and dependency_graph hands
\* the same object out again, so a caller that holds it (the one that passed
\* it to register, or one that got it from a spec or a graph) can add a key to
\* it: dependencies.add(key) on set object ref.
MutateDeps(ref, key) ==
    /\ key \notin heap[ref]
    /\ heap' = [heap EXCEPT ![ref] = @ \cup {key}]
    /\ UNCHANGED <<store, latest, last, result, thr, regs, ev>>

NextAlias ==
    \/ Next
    \/ \E ref \in DOMAIN heap, key \in Keys : MutateDeps(ref, key)

SpecAlias == Init /\ [][NextAlias]_vars

\* ------------------------------------------------------ concurrent callers
\* The registry holds no lock (metadata.py:41-47 creates two dicts and nothing
\* else), so calls made from several threads interleave between statements.
\* Each thread runs one call at a time; pc names the line of metadata.py the
\* thread executes next, and the other fields of thr[t] are the locals of the
\* call.  A statement that only touches locals is run together with the
\* access to shared state that follows it.
AllIdle == \A t \in Threads : thr[t].pc = "idle"

\* The locals of thread t at the start of its next call.
NewCall(t) == [IdleThread EXCEPT !.calls = thr[t].calls + 1]

CanCall(t) == thr[t].pc = "idle" /\ thr[t].calls < MaxCalls

\* Lines 59-70 of register: key, version and spec are built in locals.
RegisterBegin(t, metadata, deps, version) ==
    /\ CanCall(t)
    /\ Len(heap) < MaxRegs
    /\ LET key == FeatureKey(metadata.name, metadata.entity)
           ref == Len(heap) + 1
       IN /\ heap' = Append(heap, deps)
          /\ thr' = [thr EXCEPT ![t] =
                [NewCall(t) EXCEPT !.pc = "r73", !.op = "register", !.key = key,
                                   !.version = version,
                                   !.spec = FeatureSpec(ref, key, metadata, version, ref)]]
          /\ regs' = [regs EXCEPT ![key] = @ + 1]
    /\ UNCHANGED <<store, latest, last, result, ev>>

\* Line 73: self._store[(key, version)] = spec
RegisterStore(t) ==
    /\ thr[t].pc = "r73"
    /\ store' = StorePut(store, thr[t].key, thr[t].version, thr[t].spec)
    /\ thr' = [thr EXCEPT ![t].pc = "r76"]
    /\ UNCHANGED <<latest, heap, last, result, regs, ev>>

\* Lines 76-78: self._latest[key] = version; return spec
RegisterLatest(t) ==
    /\ thr[t].pc = "r76"
    /\ latest' = DictSet(latest, thr[t].key, thr[t].version)
    /\ last' = [last EXCEPT ![thr[t].key] =
                   Event("register", thr[t].key, thr[t].version, thr[t].spec.id)]
    /\ thr' = [thr EXCEPT ![t].pc = "idle", ![t].outcome = "ok"]
    /\ UNCHANGED <<store, heap, result, regs, ev>>

\* Lines 85-88 of get: the membership test, which raises when it fails.
GetBegin(t, name, entity) ==
    /\ CanCall(t)
    /\ LET key == FeatureKey(name, entity)
       IN thr' = [thr EXCEPT ![t] =
             IF key \notin DOMAIN latest
             THEN [NewCall(t) EXCEPT !.op = "get", !.key = key, !.outcome = "KeyError"]
             ELSE [NewCall(t) EXCEPT !.pc = "g90", !.op = "get", !.key = key]]
    /\ UNCHANGED <<store, latest, heap, last, result, regs, ev>>

\* Line 90: version = self._latest[key], a KeyError when the key has gone.
GetVersion(t) ==
    /\ thr[t].pc = "g90"
    /\ thr' = [thr EXCEPT ![t] =
          IF thr[t].key \notin DOMAIN latest
          THEN [@ EXCEPT !.pc = "idle", !.outcome = "KeyError"]
          ELSE [@ EXCEPT !.pc = "g91", !.version = latest[thr[t].key]]]
    /\ UNCHANGED <<store, latest, heap, last, result, regs, ev>>

\* Line 91: return self._store[(key, version)]
GetReturn(t) ==
    /\ thr[t].pc = "g91"
    /\ thr' = [thr EXCEPT ![t].pc = "idle", ![t].outcome = "ok",
                          ![t].spec = StoreGet(store, thr[t].key, thr[t].version)]
    /\ UNCHANGED <<store, latest, heap, last, result, regs, ev>>

\* Lines 98-101 of deprecate.
DeprecateBegin(t, name, entity) ==
    /\ CanCall(t)
    /\ LET key == FeatureKey(name, entity)
       IN thr' = [thr EXCEPT ![t] =
             IF key \notin DOMAIN latest
             THEN [NewCall(t) EXCEPT !.op = "deprecate", !.key = key,
                                     !.outcome = "KeyError"]
             ELSE [NewCall(t) EXCEPT !.pc = "d103", !.op = "deprecate", !.key = key]]
    /\ UNCHANGED <<store, latest, heap, last, result, regs, ev>>

\* Line 103: version = self._latest[key]
DeprecateVersion(t) ==
    /\ thr[t].pc = "d103"
    /\ thr' = [thr EXCEPT ![t] =
          IF thr[t].key \notin DOMAIN latest
          THEN [@ EXCEPT !.pc = "idle", !.outcome = "KeyError"]
          ELSE [@ EXCEPT !.pc = "d104", !.version = latest[thr[t].key]]]
    /\ UNCHANGED <<store, latest, heap, last, result, regs, ev>>

\* Line 104: spec = self._store[(key, version)], a reference to the object.
DeprecateSpec(t) ==
    /\ thr[t].pc = "d104"
    /\ thr' = [thr EXCEPT ![t].pc = "d106",
                          ![t].spec = StoreGet(store, thr[t].key, thr[t].version)]
    /\ UNCHANGED <<store, latest, heap, last, result, regs, ev>>

\* Line 106: spec.is_active = False
DeprecateActive(t) ==
    /\ thr[t].pc = "d106"
    /\ store' = [j \in DOMAIN store |->
                    IF store[j].spec.id = thr[t].spec.id
                    THEN [store[j] EXCEPT !.spec.is_active = FALSE]
                    ELSE store[j]]
    /\ thr' = [thr EXCEPT ![t].pc = "d107"]
    /\ UNCHANGED <<latest, heap, last, result, regs, ev>>

\* Line 107: spec.is_deprecated = True
DeprecateDeprecated(t) ==
    /\ thr[t].pc = "d107"
    /\ store' = [j \in DOMAIN store |->
                    IF store[j].spec.id = thr[t].spec.id
                    THEN [store[j] EXCEPT !.spec.is_deprecated = TRUE]
                    ELSE store[j]]
    /\ thr' = [thr EXCEPT ![t].pc = "d109"]
    /\ UNCHANGED <<latest, heap, last, result, regs, ev>>

\* Line 109: del self._latest[key], a KeyError when the key has gone.
DeprecateDel(t) ==
    /\ thr[t].pc = "d109"
    /\ IF thr[t].key \notin DOMAIN latest
       THEN /\ thr' = [thr EXCEPT ![t].pc = "idle", ![t].outcome = "KeyError"]
            /\ UNCHANGED <<latest, last>>
       ELSE /\ latest' = DictDel(latest, thr[t].key)
            /\ last' = [last EXCEPT ![thr[t].key] =
                           Event("deprecate", thr[t].key, thr[t].version,
                                 thr[t].spec.id)]
            /\ thr' = [thr EXCEPT ![t].pc = "idle", ![t].outcome = "ok"]
    /\ UNCHANGED <<store, heap, result, regs, ev>>

\* Lines 116-118 of dependency_graph: the empty graph and the dict iterator,
\* which remembers the size of the dict.
GraphBegin(t) ==
    /\ CanCall(t)
    /\ thr' = [thr EXCEPT ![t] =
          [NewCall(t) EXCEPT !.pc = "q118", !.op = "dependency_graph",
                             !.size = Len(store)]]
    /\ UNCHANGED <<store, latest, heap, last, result, regs, ev>>

\* Lines 118-121: one turn of the loop.  The iterator raises RuntimeError when
\* the dict has changed size, ends the loop after the last item, and yields
\* the next item otherwise.
GraphStep(t) ==
    /\ thr[t].pc = "q118"
    /\ thr' = [thr EXCEPT ![t] =
          IF Len(store) # thr[t].size
          THEN [@ EXCEPT !.pc = "idle", !.outcome = "RuntimeError",
                         !.graph = EmptyDict]
          ELSE IF thr[t].pos = Len(store)
          THEN [@ EXCEPT !.pc = "idle", !.outcome = "ok"]
          ELSE [@ EXCEPT !.pos = @ + 1,
                         !.graph = DictSet(thr[t].graph, store[thr[t].pos + 1].key,
                                           store[thr[t].pos + 1].spec.dependencies)]]
    /\ UNCHANGED <<store, latest, heap, last, result, regs, ev>>

NextConc ==
    \E t \in Threads :
       \/ \E r \in RegInputs, v \in Versions :
             RegisterBegin(t, r.metadata, r.dependencies, v)
       \/ RegisterStore(t)
       \/ RegisterLatest(t)
       \/ \E n \in Names, e \in Entities : GetBegin(t, n, e)
       \/ GetVersion(t)
       \/ GetReturn(t)
       \/ \E n \in Names, e \in Entities : DeprecateBegin(t, n, e)
       \/ DeprecateVersion(t)
       \/ DeprecateSpec(t)
       \/ DeprecateActive(t)
       \/ DeprecateDeprecated(t)
       \/ DeprecateDel(t)
       \/ GraphBegin(t)
       \/ GraphStep(t)

SpecConc == Init /\ [][NextConc]_vars

\* ---------------------------------------------------------------- claims
StoredKeys == {store[i].key : i \in DOMAIN store}

\* The stored spec object with identity id.
SpecWithId(s, id) == s[CHOOSE i \in DOMAIN s : s[i].spec.id = id].spec

\* C1: register succeeds whatever the state of the key, and the spec it
\* returns has the key, metadata and dependencies passed in, is_active true
\* and is_deprecated false; a get of that key that directly follows the
\* register succeeds and returns that same spec.
C1_RegisterThenGet ==
    [][/\ (result'.op = "register" /\ Len(heap') = Len(heap) + 1) =>
            /\ result'.status = "ok"
            /\ result'.spec.key = FeatureKey(result'.args.metadata.name,
                                             result'.args.metadata.entity)
            /\ result'.spec.metadata = result'.args.metadata
            /\ result'.spec.dependencies = result'.args.dependencies
            /\ result'.spec.is_active
            /\ ~result'.spec.is_deprecated
       /\ (result.op = "register" /\ result'.op = "get" /\ result'.key = result.key) =>
            /\ result'.status = "ok"
            /\ result'.spec = result.spec
            /\ result'.spec.key = result.key
            /\ result'.spec.metadata = result.args.metadata
            /\ result'.spec.dependencies = result.args.dependencies
            /\ result'.spec.is_active
            /\ ~result'.spec.is_deprecated]_vars

\* A get returned the newest spec, registered on a key whose earlier version
\* had been deprecated.
C1_Witness ==
    /\ result.op = "get"
    /\ result.status = "ok"
    /\ result.spec.id = Len(heap)
    /\ \E i \in DOMAIN store :
          store[i].key = result.key /\ store[i].spec.is_deprecated

\* C2: a register call never mints a (key, version) pair that an earlier
\* register call of the same key was given, so every register adds a store
\* entry of its own.
C2_DistinctVersions ==
    [][Len(heap') = Len(heap) + 1 =>
          /\ ~StoreHas(store, result'.key, result'.spec.version)
          /\ Len(store') = Len(store) + 1]_vars

\* C3: every stored spec is still stored after each step, under the same
\* (key, version), as the same object with the same key, metadata, version
\* and dependencies.
C3_StoredSpecsKept ==
    [][\A i \in DOMAIN store :
          \E j \in DOMAIN store' :
             /\ store'[j].key = store[i].key
             /\ store'[j].version = store[i].version
             /\ store'[j].spec.id = store[i].spec.id
             /\ store'[j].spec.key = store[i].spec.key
             /\ store'[j].spec.metadata = store[i].spec.metadata
             /\ store'[j].spec.version = store[i].spec.version
             /\ store'[j].spec.dependencies = store[i].spec.dependencies
             /\ heap'[store'[j].spec.dependencies] = heap[store[i].spec.dependencies]]_vars

\* C5: while the last change to a key is a deprecate, a get of the key raises
\* KeyError, and dependency_graph() has the key and maps it to the dependency
\* set of the spec that was deprecated.
C5_DeprecatedStillInGraph ==
    \A k \in Keys :
       last[k].op = "deprecate" =>
          /\ (result.op = "get" /\ result.key = k) => result.status = "KeyError"
          /\ result.op = "dependency_graph" =>
                /\ k \in DOMAIN result.graph
                /\ heap[result.graph[k]] =
                      heap[SpecWithId(store, last[k].id).dependencies]

\* C6: deprecate of a key that has no latest entry raises KeyError and changes
\* neither the store, nor any flag, nor the latest index.
C6_DeprecateMissing ==
    [][(result'.op = "deprecate" /\ result'.key \notin DOMAIN latest) =>
          /\ result'.status = "KeyError"
          /\ store' = store
          /\ latest' = latest
          /\ heap' = heap
          /\ last' = last]_vars

\* A deprecate raised KeyError on a key that was deprecated before and still
\* has an active earlier version in the store.
C6_Witness ==
    /\ result.op = "deprecate"
    /\ result.status = "KeyError"
    /\ last[result.key].op = "deprecate"
    /\ \E i \in DOMAIN store : store[i].key = result.key /\ store[i].spec.is_active

\* C7: get succeeds exactly when the most recent register or deprecate that
\* succeeded on the key is a register, and raises KeyError otherwise; a
\* deprecate does not fall back to an earlier, still active version.
C7_GetIffRegisteredLast ==
    result.op = "get" =>
       /\ result.status \in {"ok", "KeyError"}
       /\ result.status = "ok" <=> last[result.key].op = "register"
       /\ result.status = "ok" => result.spec.id = last[result.key].id

\* A get raised KeyError after register, register, deprecate on its key: the
\* first version is still stored with is_active true.
C7_Witness ==
    /\ result.op = "get"
    /\ result.status = "KeyError"
    /\ last[result.key].op = "deprecate"
    /\ \E i \in DOMAIN store :
          /\ store[i].key = result.key
          /\ store[i].spec.is_active
          /\ store[i].spec.id < last[result.key].id

\* C8: a deprecate that succeeds sets is_active false and is_deprecated true
\* on the spec the latest index pointed to, removes the key from the latest
\* index, and changes no other stored spec, no other latest entry and no
\* store key.
C8_DeprecateFrame ==
    [][\A k \in Keys :
          (last'[k] # last[k] /\ last'[k].op = "deprecate") =>
             /\ k \in DOMAIN latest
             /\ result'.op = "deprecate" /\ result'.key = k /\ result'.status = "ok"
             /\ Len(store') = Len(store)
             /\ \A j \in DOMAIN store :
                   IF j = StoreIndex(store, k, latest[k])
                   THEN store'[j] = [store[j] EXCEPT !.spec.is_active = FALSE,
                                                     !.spec.is_deprecated = TRUE]
                   ELSE store'[j] = store[j]
             /\ latest' = DictDel(latest, k)
             /\ heap' = heap]_vars

\* A key was deprecated while an earlier version of it is stored active and
\* another key has a latest entry.
C8_Witness ==
    /\ result.op = "deprecate"
    /\ result.status = "ok"
    /\ \E i \in DOMAIN store : store[i].key = result.key /\ store[i].spec.is_active
    /\ \E k \in DOMAIN latest : k # result.key

\* C9: the graph dependency_graph() returns has exactly the keys that occur
\* in the store, which are the keys ever registered, and maps each to a set
\* of FeatureKey.
C9_GraphDomain ==
    result.op = "dependency_graph" =>
       /\ DOMAIN result.graph = StoredKeys
       /\ DOMAIN result.graph = {k \in Keys : last[k].op # "none"}
       /\ \A k \in DOMAIN result.graph :
             /\ result.graph[k] \in DOMAIN heap
             /\ heap[result.graph[k]] \subseteq Keys

\* A graph was returned over a store that holds a deprecated key without a
\* latest entry and a key that has one.
C9_Witness ==
    /\ result.op = "dependency_graph"
    /\ \E k \in DOMAIN result.graph : k \notin DOMAIN latest
    /\ \E k \in DOMAIN result.graph : k \in DOMAIN latest

\* C10: as long as a caller holds the graph dependency_graph() returned, the
\* key set of the graph and the contents of every dependency set in it stay
\* what they were when it was returned.
C10_GraphIsSnapshot ==
    [][(result.op = "dependency_graph" /\ result' = result) =>
          \A k \in DOMAIN result.graph :
             heap'[result.graph[k]] = heap[result.graph[k]]]_vars

\* The stored spec of key k that was built last.
NewestOf(k) ==
    LET idx == {i \in DOMAIN store : store[i].key = k}
    IN store[CHOOSE i \in idx : \A j \in idx : store[j].spec.id <= store[i].spec.id].spec

\* C4: the calls are atomic, so whenever no call is in progress the registry
\* is in a state some sequence of whole calls leaves it in; in such a state a
\* stored key without a latest entry has had its newest spec deprecated, and
\* a register and a deprecate of one key never end with the new spec neither
\* deprecated nor in the latest index.
C4_AtomicCalls ==
    AllIdle =>
       \A k \in StoredKeys :
          k \notin DOMAIN latest => NewestOf(k).is_deprecated

\* C11: evaluate returns the value compute produced when the type of that
\* value is the declared value_type, and raises TypeError and returns no
\* value when it is another type.
C11_EvaluateChecksType ==
    ev.op = "evaluate" =>
       IF ev.value.type = ev.metadata.value_type
       THEN ev.status = "ok" /\ ev.returned = ev.value
       ELSE ev.status = "TypeError" /\ ev.returned = NoValue

\* C12: validate raises TypeError exactly when the type of the value differs
\* from the declared value_type, a bool value against a declared int
\* included.
C12_ValidateIffTagsDiffer ==
    ev.op = "validate" =>
       (ev.status = "TypeError" <=> ev.value.type # ev.metadata.value_type)

\* The positions of the store entries of key k, and the last of them.
EntriesOf(k) == {i \in DOMAIN store : store[i].key = k}

LastEntryOf(k) == CHOOSE i \in EntriesOf(k) : \A j \in EntriesOf(k) : j <= i

\* C13: dependency_graph() maps a key to the dependency set of the spec under
\* the last store entry of that key, deprecated or not, latest or not; when
\* every register call of the key got a token of its own, that spec is the
\* one registered last.
C13_GraphTakesLastEntry ==
    result.op = "dependency_graph" =>
       \A k \in DOMAIN result.graph :
          /\ result.graph[k] = store[LastEntryOf(k)].spec.dependencies
          /\ regs[k] = Cardinality(EntriesOf(k)) =>
                store[LastEntryOf(k)].spec.id = last[k].id

\* A graph was returned for a key with two stored versions whose last entry
\* is not the version in the latest index.
C13_Witness ==
    /\ result.op = "dependency_graph"
    /\ \E k \in DOMAIN result.graph :
          /\ Cardinality(EntriesOf(k)) = 2
          /\ k \in DOMAIN latest
          /\ latest[k] # store[LastEntryOf(k)].version
          /\ heap[result.graph[k]] # heap[StoreGet(store, k, latest[k]).dependencies]

\* Whether the latest index points to store entry i.
IsLatest(l, s, i) == s[i].key \in DOMAIN l /\ l[s[i].key] = s[i].version

\* C14: a stored spec that is active and no longer the latest stays stored
\* with is_active true and is_deprecated false after every call, and the
\* latest index does not point to it again.
C14_SupersededStays ==
    [][\A i \in DOMAIN store :
          (/\ store[i].spec.is_active
           /\ ~store[i].spec.is_deprecated
           /\ ~IsLatest(latest, store, i)) =>
             \E j \in DOMAIN store' :
                /\ store'[j].key = store[i].key
                /\ store'[j].version = store[i].version
                /\ store'[j].spec.id = store[i].spec.id
                /\ store'[j].spec.is_active
                /\ ~store'[j].spec.is_deprecated
                /\ ~IsLatest(latest', store', j)]_vars

\* C15: a stored spec with is_active false and is_deprecated true stays
\* stored with those flags after every call, and the latest index never
\* points to it again.
C15_DeprecatedIsTerminal ==
    [][\A i \in DOMAIN store :
          (~store[i].spec.is_active /\ store[i].spec.is_deprecated) =>
             \E j \in DOMAIN store' :
                /\ store'[j].key = store[i].key
                /\ store'[j].version = store[i].version
                /\ store'[j].spec.id = store[i].spec.id
                /\ ~store'[j].spec.is_active
                /\ store'[j].spec.is_deprecated
                /\ ~IsLatest(latest', store', j)]_vars

\* C16: every entry of the latest index names a stored (key, version) whose
\* spec has that key, is_active true and is_deprecated false; a get of a key
\* in the latest index succeeds, and a get that succeeds returns such a spec.
C16_LatestIsActive ==
    /\ \A k \in DOMAIN latest :
          /\ k \in Keys
          /\ StoreHas(store, k, latest[k])
          /\ StoreGet(store, k, latest[k]).key = k
          /\ StoreGet(store, k, latest[k]).version = latest[k]
          /\ StoreGet(store, k, latest[k]).is_active
          /\ ~StoreGet(store, k, latest[k]).is_deprecated
    /\ result.op = "get" =>
          /\ result.key \in DOMAIN latest => result.status = "ok"
          /\ result.status = "ok" =>
                /\ result.spec.key = result.key
                /\ result.spec.is_active
                /\ ~result.spec.is_deprecated

\* Both keys have a latest entry, a deprecated version of one of them is
\* stored, and a get of that key succeeded.
C16_Witness ==
    /\ DOMAIN latest = Keys
    /\ result.op = "get"
    /\ result.status = "ok"
    /\ \E i \in DOMAIN store :
          store[i].key = result.key /\ store[i].spec.is_deprecated

\* C17: every stored spec has is_active equal to the negation of
\* is_deprecated.
C17_FlagsAreOpposite ==
    \A i \in DOMAIN store : store[i].spec.is_active = ~store[i].spec.is_deprecated

\* The store holds a deprecated spec and an active one after a deprecate.
C17_Witness ==
    /\ result.op = "deprecate"
    /\ result.status = "ok"
    /\ \E i \in DOMAIN store : store[i].spec.is_deprecated
    /\ \E i \in DOMAIN store : store[i].spec.is_active

\* C18: a register call for key k adds one store entry, leaves every entry
\* stored before as it was, sets the latest entry of k and leaves the latest
\* entries of the other keys as they were.
C18_RegisterFrame ==
    [][\A k \in Keys :
          regs'[k] = regs[k] + 1 =>
             /\ Len(store') = Len(store) + 1
             /\ \A i \in DOMAIN store : store'[i] = store[i]
             /\ store'[Len(store')].key = k
             /\ k \in DOMAIN latest'
             /\ latest'[k] = store'[Len(store')].version
             /\ \A k2 \in Keys \ {k} :
                   /\ k2 \in DOMAIN latest' <=> k2 \in DOMAIN latest
                   /\ k2 \in DOMAIN latest => latest'[k2] = latest[k2]
             /\ \A r \in DOMAIN heap : heap'[r] = heap[r]]_vars

====
